---- MODULE Spec2Model ----
(***************************************************************************)
(* TransitClustering: bus stops, census tracts, Poisson intensity maps and *)
(* density clustering.                                                     *)
(*                                                                         *)
(* Geometry is modelled on a line laid out on a kilometre grid: a census   *)
(* tract is the closed interval [lo, hi] (a strip one kilometre deep), a   *)
(* bus stop is a coordinate x.  "intersects" is lo <= x <= hi, so a stop   *)
(* on a shared boundary intersects both tracts and a degenerate tract      *)
(* (lo = hi) has area 0 and still intersects a stop lying on it.           *)
(*                                                                         *)
(* Floating point numbers are modelled exactly: counts and areas are       *)
(* integers, the intensity and the expected counts are fractions           *)
(* [num, den], and a fraction with den = 0 is the nan that numpy produces  *)
(* for x / 0 * 0.  Probabilities are fixed point numbers in millionths.    *)
(***************************************************************************)
EXTENDS Integers, Sequences, FiniteSets, TLC

VARIABLES
    script,          \* which __main__ runs: "stops", "service" ("nuanced" once it
                     \* has gone on to plot_nuanced_service_densities) or "dbscan", and
                     \* "hdbscan" once density_clustering.py has gone on to it
    pc,              \* the statement the script is at
    census_df,       \* census tracts: rows [geoid10, lo, hi], the geometry [lo, hi]
    census_crs,      \* census_df.crs
    bus_df,          \* bus stops: rows [x] (CTA_BusStops) or [x, stop_count] (bus_df_2)
    bus_crs,         \* bus_df.crs
    bus_census,      \* result of gpd.sjoin: a row [stop, x, stop_count, geoid10] per
                     \* stop and tract that intersect
                     \* (stops_census in service_to_stops.py)
    point_sum,       \* result of groupby(...).reset_index: sequence of [geoid10, count]
    prob_census_df,  \* census_df merged with point_sum, plus the derived columns
    avg_intensity,   \* fraction [num, den]; <<>> before it is computed
    census_bus_crs_df, \* census_df in the crs of the stops
    stops_census_df, \* result of the inner gpd.sjoin of plot_nuanced_service_densities
    point_sum_df,    \* its groupby: sequence of [geoid10, count], row n has index n - 1
    point_sum_gdf,   \* point_sum_df with the geometry column
    point_df,        \* the stops given to dbscan: rows [x, y], in thousandths of a degree
    coords_array,    \* the coordinates of the centroids: sequence of <<x, y>>
    db_results,      \* the fitted DBSCAN: [labels_, core_sample_indices_]
    db_labels,       \* the labels as strings
    n_clusters,
    n_noise,
    hdb_results,     \* the fitted HDBSCAN: [labels_]
    hdb_labels,      \* its labels as strings
    n_clusters_,
    n_noise_

\* the variables of density_clustering.hdbscan
hdbvars == <<hdb_results, hdb_labels, n_clusters_, n_noise_>>

\* the variables of density_clustering.py
clustervars == <<point_df, coords_array, db_results, db_labels, n_clusters, n_noise,
                 hdbvars>>

\* the variables of service_to_stops.plot_nuanced_service_densities
nuancedvars == <<census_bus_crs_df, stops_census_df, point_sum_df, point_sum_gdf>>

\* the variables of bus_by_census_tract.py and service_to_stops.py
tablevars == <<census_df, census_crs, bus_df, bus_crs, bus_census, point_sum,
               prob_census_df, avg_intensity, nuancedvars>>

vars == <<script, pc, tablevars, clustervars>>

-----------------------------------------------------------------------------
(* Bounds of the model *)

\* census tracts in census_df
MaxTracts == 2
\* bus stops in bus_df
MaxStops == 2
\* tract boundaries and stops lie on the grid lines 0 .. MaxGrid
MaxGrid == 2
\* scheduled weekly visits of a busy stop (a quiet stop has 1)
BusyStop == 2000
\* places at which the stops given to dbscan stand
MaxSites == 4
\* the stops standing at one place: 1, half a cluster's worth, a cluster's worth
Crowds == {1, 5, 10}
\* the radii at which the clustering is compared: 1 .. MaxEps
MaxEps == 5
\* places at which the stops stand when dbscan and hdbscan run one after the other
MaxPlaces == 3

-----------------------------------------------------------------------------
(* Values *)

\* pandas' missing value and numpy's nan, in a column of counts, tract ids or
\* probabilities (none of which is ever negative)
NaN == -1

Range(s) == {s[i] : i \in 1..Len(s)}

RECURSIVE SumSeq(_)
SumSeq(s) == IF s = <<>> THEN 0 ELSE Head(s) + SumSeq(Tail(s))

Column(df, col) == [i \in 1..Len(df) |-> df[i][col]]


-----------------------------------------------------------------------------
(* Fixed point arithmetic for scipy.stats.poisson.pmf                       *)

\* TLC integers are 32 bit
MaxInt == 2147483647
\* probabilities and logarithms are kept in millionths
Micro == 1000000

Abs(a) == IF a < 0 THEN -a ELSE a

\* <<q, m>> with a * b = q * c + m and 0 <= m < c, without overflow
\* (0 <= a, 0 <= b, 0 < c < 2^30)
RECURSIVE MulDivQR(_, _, _)
MulDivQR(a, b, c) ==
    IF b = 0 THEN <<0, 0>>
    ELSE LET h == MulDivQR(a, b \div 2, c)
             m2 == 2 * h[2]
             m3 == (m2 % c) + (IF b % 2 = 1 THEN a % c ELSE 0)
             q3 == 2 * h[1] + (m2 \div c)
                     + (IF b % 2 = 1 THEN a \div c ELSE 0) + (m3 \div c)
         IN  <<q3, m3 % c>>

\* floor(a * b / c) for a, b >= 0 and c > 0
MulDiv(a, b, c) ==
    IF c > 0 /\ a > 0 /\ b > MaxInt \div a THEN MulDivQR(a, b, c)[1]
    ELSE (a * b) \div c

\* a * b / c rounded towards zero, for any sign of a
SMulDiv(a, b, c) == IF a < 0 THEN -MulDiv(-a, b, c) ELSE MulDiv(a, b, c)

\* ln 2 in millionths
Ln2 == 693147

\* sum of z^(2j+1) / (2j+1) from the term zp = z^(2j+1) on: atanh(z), z in millionths
RECURSIVE AtanhTail(_, _, _)
AtanhTail(zp, z2, n) ==
    IF zp = 0 THEN 0
    ELSE (zp \div n) + AtanhTail(MulDiv(zp, z2, Micro), z2, n + 2)

\* ln(p / q) in millionths, for p >= q > 0
RECURSIVE LnGE(_, _)
LnGE(p, q) ==
    IF p >= 2 * q THEN Ln2 + LnGE(p, 2 * q)
    ELSE LET z == MulDiv(p - q, Micro, p + q)
         IN  2 * AtanhTail(z, MulDiv(z, z, Micro), 1)

\* ln(p / q) in millionths, for p, q > 0
Ln(p, q) == IF p >= q THEN LnGE(p, q) ELSE -LnGE(q, p)

\* sum of r^j / j! from the term t = r^(j-1) / (j-1)! on, r in millionths
RECURSIVE ExpTail(_, _, _)
ExpTail(t, r, j) ==
    IF t = 0 THEN 0
    ELSE t + ExpTail(MulDiv(t, r, j * Micro), r, j + 1)

RECURSIVE Halve(_, _)
Halve(v, n) == IF n = 0 THEN v ELSE Halve(v \div 2, n - 1)

\* exp(-y) in millionths, for y >= 0 in millionths
ExpNeg(y) ==
    LET n == y \div Ln2
        r == y % Ln2
    IN  IF n > 30 THEN 0
        ELSE Halve(MulDiv(Micro, Micro, ExpTail(Micro, r, 1)), n)

\* 0.5 * ln(2 * pi) in millionths
HalfLn2Pi == 918939

\* ln(k!) in millionths
RECURSIVE LnFactorial(_)
LnFactorial(k) == IF k <= 1 THEN 0 ELSE Ln(k, 1) + LnFactorial(k - 1)

\* gammaln(k + 1) - (k ln k - k) in millionths, k >= 1: from ln(k!) for a small
\* k, and from Stirling's series 0.5 ln(2 pi k) + 1/(12k) - 1/(360k^3) beyond
StirlingTerm(k) ==
    IF k <= 12 THEN LnFactorial(k) - k * Ln(k, 1) + k * Micro
    ELSE HalfLn2Pi + (Ln(k, 1) \div 2) + (Micro \div (12 * k))
           - (IF k <= 100 THEN Micro \div (360 * k * k * k) ELSE 0)

\* a product of more than LogCap nats cancels to a probability below 1e-6
LogCap == 2000

\* poisson.pmf(k, mu) in millionths: exp(k ln mu - gammaln(k + 1) - mu), computed
\* as exp(k ln(mu / k) + (k - mu) - StirlingTerm(k)); mu = [num, den], nan if den = 0
PoissonPmf(k, mu) ==
    IF mu.den = 0 THEN NaN
    ELSE IF mu.num = 0 THEN (IF k = 0 THEN Micro ELSE 0)
    ELSE IF k = 0 THEN
        (IF mu.num \div mu.den > 30 THEN 0
         ELSE ExpNeg(MulDiv(mu.num, Micro, mu.den)))
    ELSE LET lnx == Ln(mu.num, mu.den * k)
             gap == k * mu.den - mu.num
         IN  IF (lnx # 0 /\ k > (LogCap * Micro) \div Abs(lnx))
                  \/ Abs(gap) \div mu.den >= LogCap
             THEN 0
             ELSE LET lnp == k * lnx + SMulDiv(gap, Micro, mu.den) - StirlingTerm(k)
                  IN  IF lnp >= 0 THEN Micro ELSE ExpNeg(-lnp)

\* a < b on floats; any comparison with nan is False
FloatLess(a, b) == a # NaN /\ b # NaN /\ a < b

-----------------------------------------------------------------------------
(* Geometry *)

CRS == {"EPSG:4326", "EPSG:3435"}

\* grid line g lies g^3 kilometres from the origin, so tracts differ in size
Pos(g) == g * g * g

\* GeoSeries.to_crs on a coordinate: the two systems are one kilometre apart
ProjectX(x, from, to) ==
    IF from = to THEN x
    ELSE IF from = "EPSG:4326" THEN x + 1 ELSE x - 1

\* GeoDataFrame.to_crs on the census tracts: the index and the other columns stay
ToCrsTracts(df, from, to) ==
    [i \in 1..Len(df) |-> [df[i] EXCEPT !.lo = ProjectX(df[i].lo, from, to),
                                         !.hi = ProjectX(df[i].hi, from, to)]]

\* GeoDataFrame.to_crs on the bus stops
ToCrs(df, from, to) ==
    [i \in 1..Len(df) |-> [df[i] EXCEPT !.x = ProjectX(df[i].x, from, to)]]

\* the "intersects" predicate of gpd.sjoin on the raw coordinates: the stop lies
\* in the closed tract
Intersects(stop, tract) == tract.lo <= stop.x /\ stop.x <= tract.hi

\* GeoSeries.area of a tract, in square metres: a strip one kilometre deep
GeometryArea(tract) == (tract.hi - tract.lo) * 1000 * 1000

-----------------------------------------------------------------------------
(* geopandas and pandas operations *)

\* SjoinMatches gone wrong: a stop is given to the first tract it intersects only
RECURSIVE SjoinMatchesFirst(_, _, _, _)
SjoinMatchesFirst(i, stop, right, j) ==
    IF j > Len(right) THEN <<>>
    ELSE IF Intersects(stop, right[j])
         THEN <<[stop |-> i, geoid10 |-> right[j].geoid10] @@ stop>>
         ELSE SjoinMatchesFirst(i, stop, right, j + 1)

\* the rows gpd.sjoin makes of one stop: one per tract it intersects, in the
\* order of the tracts
RECURSIVE SjoinMatches(_, _, _, _)
SjoinMatches(i, stop, right, j) ==
    IF j > Len(right) THEN <<>>
    ELSE (IF Intersects(stop, right[j])
          THEN <<[stop |-> i, geoid10 |-> right[j].geoid10] @@ stop>>
          ELSE <<>>)
         \o SjoinMatches(i, stop, right, j + 1)

\* gpd.sjoin(left, right, how=how, op="intersects"), from row i of left on: a
\* stop in k tracts makes k rows; a stop in none makes no row ("inner") or one
\* row without a tract ("left")
RECURSIVE SjoinFrom(_, _, _, _)
SjoinFrom(left, right, how, i) ==
    IF i > Len(left) THEN <<>>
    ELSE LET m == SjoinMatches(i, left[i], right, 1)
         IN  (IF m = <<>> /\ how = "left"
              THEN <<[stop |-> i, geoid10 |-> NaN] @@ left[i]>>
              ELSE m)
             \o SjoinFrom(left, right, how, i + 1)

Sjoin(left, right, how) == SjoinFrom(left, right, how, 1)

\* GroupKeys gone wrong: groupby(..., dropna=False), NaN is a group of its own
GroupKeysWithNaN(df) == {df[i].geoid10 : i \in 1..Len(df)}

\* the keys groupby("geoid10") makes groups of: NaN keys are dropped
GroupKeys(df) == {df[i].geoid10 : i \in 1..Len(df)} \ {NaN}

\* the keys of a groupby in sorted order
RECURSIVE SortedKeys(_)
SortedKeys(S) ==
    IF S = {} THEN <<>>
    ELSE LET k == CHOOSE a \in S : \A b \in S : a <= b
         IN  <<k>> \o SortedKeys(S \ {k})

RowsOfKey(df, k) == SelectSeq(df, LAMBDA row : row.geoid10 = k)

\* df.groupby("geoid10").size().reset_index(name="count")
GroupbySize(df) ==
    LET keys == SortedKeys(GroupKeys(df))
    IN  [n \in 1..Len(keys) |->
            [geoid10 |-> keys[n], count |-> Len(RowsOfKey(df, keys[n]))]]

\* df.groupby("geoid10")["stop_count"].sum().reset_index(name="count")
GroupbySum(df) ==
    LET keys == SortedKeys(GroupKeys(df))
    IN  [n \in 1..Len(keys) |->
            [geoid10 |-> keys[n],
             count |-> SumSeq(Column(RowsOfKey(df, keys[n]), "stop_count"))]]

\* census_df["geometry"]: the polygons, row n under index n - 1
GeometryColumn(df) == [i \in 1..Len(df) |-> [lo |-> df[i].lo, hi |-> df[i].hi]]

\* gpd.GeoDataFrame(df, geometry=GeoSeries): the series is assigned as a column,
\* which aligns it on the index: the row with index n - 1 gets the polygon with
\* index n - 1, and none where the series has no such index.
SetGeometry(df, geometry) ==
    [n \in 1..Len(df) |->
        ("geometry" :> IF n <= Len(geometry) THEN geometry[n] ELSE NaN) @@ df[n]]

\* a row of census_df.merge(point_sum, ...): the columns of the tract and the count
MergedRow(tract, count) == [count |-> count] @@ tract

\* MergeLeft gone wrong: how="inner", a tract without a row in right is dropped
RECURSIVE MergeInnerFrom(_, _, _)
MergeInnerFrom(left, right, i) ==
    IF i > Len(left) THEN <<>>
    ELSE LET m == SelectSeq(right, LAMBDA row : row.geoid10 = left[i].geoid10)
         IN  [n \in 1..Len(m) |-> [count |-> m[n].count] @@ left[i]]
             \o MergeInnerFrom(left, right, i + 1)

MergeInner(left, right) == MergeInnerFrom(left, right, 1)

\* left.merge(right, how="left", on="geoid10"), from row i of left on: a tract
\* without a row in right is kept, its count NaN
RECURSIVE MergeLeftFrom(_, _, _)
MergeLeftFrom(left, right, i) ==
    IF i > Len(left) THEN <<>>
    ELSE LET m == RowsOfKey(right, left[i].geoid10)
         IN  (IF m = <<>> THEN <<MergedRow(left[i], NaN)>>
              ELSE [n \in 1..Len(m) |-> MergedRow(left[i], m[n].count)])
             \o MergeLeftFrom(left, right, i + 1)

MergeLeft(left, right) == MergeLeftFrom(left, right, 1)

\* df.fillna(0)
Fillna0(df) ==
    [i \in 1..Len(df) |->
        [df[i] EXCEPT !.count = IF df[i].count = NaN THEN 0 ELSE df[i].count]]

\* df[col] = values: the column is added, or replaced if the frame has it
SetColumn(df, col, values) ==
    [i \in 1..Len(df) |-> (col :> values[i]) @@ df[i]]

\* col in df.columns
HasColumn(df, col) == \A i \in 1..Len(df) : col \in DOMAIN df[i]

-----------------------------------------------------------------------------
(* The intensity model of get_bus_density_by_census_tract and               *)
(* plot_service_density                                                     *)

\* the significance thresholds, in millionths
AlphaStops == 50000
AlphaService == 10000

\* df.geometry.area / 10**6
AreaKm2(df) == [i \in 1..Len(df) |-> GeometryArea(df[i]) \div 1000000]

\* AvgIntensity gone wrong: only the area of the tracts that have stops is summed
AvgIntensityOfServedTracts(df, area) ==
    [num |-> SumSeq(Column(df, "count")),
     den |-> SumSeq([i \in 1..Len(df) |-> IF df[i].count > 0 THEN df[i][area] ELSE 0])]

\* df["count"].sum() / df[area].sum(): the division by 0 is numpy's, which
\* warns and gives inf or nan
AvgIntensity(df, area) ==
    [num |-> SumSeq(Column(df, "count")), den |-> SumSeq(Column(df, area))]

\* avg_intensity * df[area]: nan for every tract when the total area is 0
\* (all the areas are 0 then, and inf * 0 = nan * 0 = nan)
Exppts(lambda, df, area) ==
    [i \in 1..Len(df) |->
        IF lambda.den = 0 THEN [num |-> 0, den |-> 0]
        ELSE [num |-> lambda.num * df[i][area], den |-> lambda.den]]

\* poisson.pmf(df["count"], df["exppts"])
Ptprob(df) == [i \in 1..Len(df) |-> PoissonPmf(df[i].count, df[i].exppts)]

\* count > exppts and count < exppts on a float column; False against nan
CountAbove(row) == row.exppts.den # 0 /\ row.count * row.exppts.den > row.exppts.num
CountBelow(row) == row.exppts.den # 0 /\ row.count * row.exppts.den < row.exppts.num

\* Conditions gone wrong: count >= exppts in the first condition
ConditionsAtLeast(row, alpha) ==
    << ~CountBelow(row) /\ row.exppts.den # 0 /\ FloatLess(row.ptprob, alpha),
       CountBelow(row) /\ FloatLess(row.ptprob, alpha) >>

\* the list "conditions" for one tract
Conditions(row, alpha) ==
    << CountAbove(row) /\ FloatLess(row.ptprob, alpha),
       CountBelow(row) /\ FloatLess(row.ptprob, alpha) >>

\* np.select(condlist, choicelist, default) for one element: the choice of the
\* first condition that holds
RECURSIVE NpSelect(_, _, _)
NpSelect(condlist, choicelist, default) ==
    IF condlist = <<>> THEN default
    ELSE IF Head(condlist) THEN Head(choicelist)
    ELSE NpSelect(Tail(condlist), Tail(choicelist), default)

ProbMap(df, alpha) ==
    [i \in 1..Len(df) |->
        NpSelect(Conditions(df[i], alpha),
                 <<"More than expected", "Less than expected">>,
                 "Non-significant")]

-----------------------------------------------------------------------------
(* Inputs *)

IsSorted(s) == \A i \in 1..(Len(s) - 1) : s[i] <= s[i + 1]

\* census tracts tile the line: tract j lies between the grid lines cut[j-1]
\* and cut[j]; two grid lines that coincide bound a tract of area 0.  The
\* geoid10 are 1 .. n, in the order of the rows or against it.
CensusTables ==
    { [j \in 1..n |-> [geoid10 |-> IF up THEN j ELSE n + 1 - j,
                       lo |-> Pos(cut[j]), hi |-> Pos(cut[j + 1])]] :
        <<n, cut, up>> \in
          { t \in UNION { {m} \X [1..(m + 1) -> 0..MaxGrid] \X BOOLEAN :
                           m \in 1..MaxTracts } : IsSorted(t[2]) } }

\* the stops lie on grid lines, the rows in the order of the line
StopPlaces ==
    { p \in UNION { [1..m -> 0..MaxGrid] : m \in 0..MaxStops } : IsSorted(p) }

\* CTA_BusStops.shp: a point per stop, in the system crs
BusStopTables(crs) ==
    { [i \in 1..Len(p) |-> [x |-> ProjectX(Pos(p[i]), "EPSG:4326", crs)]] :
        p \in StopPlaces }

\* bus_df_2: the stops with the number of scheduled visits of each
BusServiceTables(crs) ==
    { [i \in 1..Len(p) |->
          [x |-> ProjectX(Pos(p[i]), "EPSG:4326", crs),
           stop_count |-> IF busy[i] THEN BusyStop ELSE 1]] :
        <<p, busy>> \in
          { t \in StopPlaces \X UNION { [1..m -> BOOLEAN] : m \in 0..MaxStops } :
              /\ Len(t[1]) = Len(t[2])
              /\ \A i \in 1..(Len(t[1]) - 1) :
                    t[1][i] = t[1][i + 1] => (t[2][i] => t[2][i + 1]) } }

InitTables ==
    /\ census_crs = "EPSG:4326"
    /\ census_df \in CensusTables
    /\ bus_crs \in CRS
    /\ bus_census = <<>>
    /\ point_sum = <<>>
    /\ prob_census_df = <<>>
    /\ avg_intensity = <<>>
    /\ census_bus_crs_df = <<>>
    /\ stops_census_df = <<>>
    /\ point_sum_df = <<>>
    /\ point_sum_gdf = <<>>
    /\ point_df = <<>>
    /\ coords_array = <<>>
    /\ db_results = <<>>
    /\ db_labels = <<>>
    /\ n_clusters = 0
    /\ n_noise = 0
    /\ hdb_results = <<>>
    /\ hdb_labels = <<>>
    /\ n_clusters_ = 0
    /\ n_noise_ = 0

\* bus_by_census_tract.py, at the call of get_bus_density_by_census_tract
InitStops ==
    /\ script = "stops"
    /\ pc = "to_crs"
    /\ InitTables
    /\ bus_df \in BusStopTables(bus_crs)

\* service_to_stops.py, in get_data after bus_df_2 is merged
InitService ==
    /\ script = "service"
    /\ pc = "sjoin"
    /\ InitTables
    /\ bus_df \in BusServiceTables(bus_crs)

Init == InitStops \/ InitService

-----------------------------------------------------------------------------
(* bus_by_census_tract.get_bus_density_by_census_tract *)

\* bus_df = bus_df.to_crs(census_df.crs)
StopsToCrs ==
    /\ script = "stops" /\ pc = "to_crs"
    /\ bus_df' = ToCrs(bus_df, bus_crs, census_crs)
    /\ bus_crs' = census_crs
    /\ pc' = "sjoin"
    /\ UNCHANGED <<clustervars, nuancedvars, script, census_df, census_crs, bus_census, point_sum,
                   prob_census_df, avg_intensity>>

\* bus_census = gpd.sjoin(bus_df, census_df, how="inner", op="intersects")
StopsSjoin ==
    /\ script = "stops" /\ pc = "sjoin"
    /\ bus_census' = Sjoin(bus_df, census_df, "inner")
    /\ pc' = "groupby"
    /\ UNCHANGED <<clustervars, nuancedvars, script, census_df, census_crs, bus_df, bus_crs, point_sum,
                   prob_census_df, avg_intensity>>

\* point_sum = bus_census.groupby("geoid10").size().reset_index(name="count")
StopsGroupby ==
    /\ script = "stops" /\ pc = "groupby"
    /\ point_sum' = GroupbySize(bus_census)
    /\ pc' = "merge"
    /\ UNCHANGED <<clustervars, nuancedvars, script, census_df, census_crs, bus_df, bus_crs, bus_census,
                   prob_census_df, avg_intensity>>

\* prob_census_df = census_df.merge(point_sum, how="left", on="geoid10").fillna(0)
StopsMerge ==
    /\ script = "stops" /\ pc = "merge"
    /\ prob_census_df' = Fillna0(MergeLeft(census_df, point_sum))
    /\ pc' = "area"
    /\ UNCHANGED <<clustervars, nuancedvars, script, census_df, census_crs, bus_df, bus_crs, bus_census,
                   point_sum, avg_intensity>>

\* prob_census_df["areakm2"] = prob_census_df.geometry.area / 10**6
StopsArea ==
    /\ script = "stops" /\ pc = "area"
    /\ prob_census_df' = SetColumn(prob_census_df, "areakm2", AreaKm2(prob_census_df))
    /\ pc' = "intensity"
    /\ UNCHANGED <<clustervars, nuancedvars, script, census_df, census_crs, bus_df, bus_crs, bus_census,
                   point_sum, avg_intensity>>

\* avg_intensity = prob_census_df["count"].sum() / prob_census_df["areakm2"].sum()
StopsIntensity ==
    /\ script = "stops" /\ pc = "intensity"
    /\ avg_intensity' = AvgIntensity(prob_census_df, "areakm2")
    /\ pc' = "exppts"
    /\ UNCHANGED <<clustervars, nuancedvars, script, census_df, census_crs, bus_df, bus_crs, bus_census,
                   point_sum, prob_census_df>>

\* prob_census_df["exppts"] = avg_intensity * prob_census_df["areakm2"]
StopsExppts ==
    /\ script = "stops" /\ pc = "exppts"
    /\ prob_census_df' = SetColumn(prob_census_df, "exppts",
                                   Exppts(avg_intensity, prob_census_df, "areakm2"))
    /\ pc' = "ptprob"
    /\ UNCHANGED <<clustervars, nuancedvars, script, census_df, census_crs, bus_df, bus_crs, bus_census,
                   point_sum, avg_intensity>>

\* prob_census_df["ptprob"] = poisson.pmf(count, exppts)
StopsPtprob ==
    /\ script = "stops" /\ pc = "ptprob"
    /\ prob_census_df' = SetColumn(prob_census_df, "ptprob", Ptprob(prob_census_df))
    /\ pc' = "prob_map"
    /\ UNCHANGED <<clustervars, nuancedvars, script, census_df, census_crs, bus_df, bus_crs, bus_census,
                   point_sum, avg_intensity>>

\* conditions = [...]; prob_census_df["prob_map"] = np.select(...)
StopsProbMap ==
    /\ script = "stops" /\ pc = "prob_map"
    /\ prob_census_df' = SetColumn(prob_census_df, "prob_map",
                                   ProbMap(prob_census_df, AlphaStops))
    /\ pc' = "done"
    /\ UNCHANGED <<clustervars, nuancedvars, script, census_df, census_crs, bus_df, bus_crs, bus_census,
                   point_sum, avg_intensity>>

-----------------------------------------------------------------------------
(* service_to_stops.get_data and service_to_stops.plot_service_density *)

\* stops_census = gpd.sjoin(bus_df_2, census_df, how="left", op="intersects"):
\* the stops are joined in the crs they were read in
ServiceSjoin ==
    /\ script = "service" /\ pc = "sjoin"
    /\ bus_census' = Sjoin(bus_df, census_df, "left")
    /\ pc' = "groupby"
    /\ UNCHANGED <<clustervars, nuancedvars, script, census_df, census_crs, bus_df, bus_crs, point_sum,
                   prob_census_df, avg_intensity>>

\* point_sum = stops_census.groupby("geoid10")["stop_count"].sum()
\*                 .reset_index(name="count")
ServiceGroupby ==
    /\ script = "service" /\ pc = "groupby"
    /\ point_sum' = GroupbySum(bus_census)
    /\ pc' = "merge"
    /\ UNCHANGED <<clustervars, nuancedvars, script, census_df, census_crs, bus_df, bus_crs, bus_census,
                   prob_census_df, avg_intensity>>

\* prob_census_df = census_df.merge(point_sum, how="left", on="geoid10").fillna(0)
\* and get_data returns; __main__ passes prob_census_df to plot_service_density
ServiceMerge ==
    /\ script = "service" /\ pc = "merge"
    /\ prob_census_df' = Fillna0(MergeLeft(census_df, point_sum))
    /\ pc' = "area"
    /\ UNCHANGED <<clustervars, nuancedvars, script, census_df, census_crs, bus_df, bus_crs, bus_census,
                   point_sum, avg_intensity>>

\* prob_census_df["area"] = prob_census_df.geometry.area / 10**6
ServiceArea ==
    /\ script = "service" /\ pc = "area"
    /\ prob_census_df' = SetColumn(prob_census_df, "area", AreaKm2(prob_census_df))
    /\ pc' = "intensity"
    /\ UNCHANGED <<clustervars, nuancedvars, script, census_df, census_crs, bus_df, bus_crs, bus_census,
                   point_sum, avg_intensity>>

\* avg_intensity = prob_census_df["count"].sum() / prob_census_df["area"].sum()
ServiceIntensity ==
    /\ script = "service" /\ pc = "intensity"
    /\ avg_intensity' = AvgIntensity(prob_census_df, "area")
    /\ pc' = "exppts"
    /\ UNCHANGED <<clustervars, nuancedvars, script, census_df, census_crs, bus_df, bus_crs, bus_census,
                   point_sum, prob_census_df>>

\* prob_census_df["exppts"] = avg_intensity * prob_census_df["area"]
ServiceExppts ==
    /\ script = "service" /\ pc = "exppts"
    /\ prob_census_df' = SetColumn(prob_census_df, "exppts",
                                   Exppts(avg_intensity, prob_census_df, "area"))
    /\ pc' = "ptprob"
    /\ UNCHANGED <<clustervars, nuancedvars, script, census_df, census_crs, bus_df, bus_crs, bus_census,
                   point_sum, avg_intensity>>

\* prob_census_df["ptprob"] = poisson.pmf(count, exppts)
ServicePtprob ==
    /\ script = "service" /\ pc = "ptprob"
    /\ prob_census_df' = SetColumn(prob_census_df, "ptprob", Ptprob(prob_census_df))
    /\ pc' = "prob_map"
    /\ UNCHANGED <<clustervars, nuancedvars, script, census_df, census_crs, bus_df, bus_crs, bus_census,
                   point_sum, avg_intensity>>

\* conditions = [...]; prob_census_df["prob_map"] = np.select(...)
ServiceProbMap ==
    /\ script = "service" /\ pc = "prob_map"
    /\ prob_census_df' = SetColumn(prob_census_df, "prob_map",
                                   ProbMap(prob_census_df, AlphaService))
    /\ pc' = "done"
    /\ UNCHANGED <<clustervars, nuancedvars, script, census_df, census_crs, bus_df, bus_crs, bus_census,
                   point_sum, avg_intensity>>

\* plot_service_density(prob_census_df) has returned:
\* plot_nuanced_service_densities(census_df, bus_df)
MainCallsNuanced ==
    /\ script = "service" /\ pc = "done"
    /\ script' = "nuanced"
    /\ pc' = "to_crs"
    /\ UNCHANGED <<clustervars, tablevars>>

\* census_bus_crs_df = census_df.to_crs(bus_df.crs)
NuancedToCrs ==
    /\ script = "nuanced" /\ pc = "to_crs"
    /\ census_bus_crs_df' = ToCrsTracts(census_df, census_crs, bus_crs)
    /\ pc' = "sjoin"
    /\ UNCHANGED <<clustervars, script, census_df, census_crs, bus_df, bus_crs, bus_census,
                   point_sum, prob_census_df, avg_intensity, stops_census_df,
                   point_sum_df, point_sum_gdf>>

\* stops_census_df = gpd.sjoin(bus_df, census_bus_crs_df, how="inner", op="intersects")
NuancedSjoin ==
    /\ script = "nuanced" /\ pc = "sjoin"
    /\ stops_census_df' = Sjoin(bus_df, census_bus_crs_df, "inner")
    /\ pc' = "groupby"
    /\ UNCHANGED <<clustervars, script, census_df, census_crs, bus_df, bus_crs, bus_census,
                   point_sum, prob_census_df, avg_intensity, census_bus_crs_df,
                   point_sum_df, point_sum_gdf>>

\* point_sum_df = stops_census_df.groupby("geoid10")["stop_count"].sum()
\*                    .reset_index(name="count"); the count as float
NuancedGroupby ==
    /\ script = "nuanced" /\ pc = "groupby"
    /\ point_sum_df' = GroupbySum(stops_census_df)
    /\ pc' = "geometry"
    /\ UNCHANGED <<clustervars, script, census_df, census_crs, bus_df, bus_crs, bus_census,
                   point_sum, prob_census_df, avg_intensity, census_bus_crs_df,
                   stops_census_df, point_sum_gdf>>

\* point_sum_gdf = gpd.GeoDataFrame(
\*     point_sum_df, geometry=gpd.GeoSeries(census_bus_crs_df["geometry"]))
NuancedGeometry ==
    /\ script = "nuanced" /\ pc = "geometry"
    /\ point_sum_gdf' = SetGeometry(point_sum_df, GeometryColumn(census_bus_crs_df))
    /\ pc' = "done"
    /\ UNCHANGED <<clustervars, script, census_df, census_crs, bus_df, bus_crs, bus_census,
                   point_sum, prob_census_df, avg_intensity, census_bus_crs_df,
                   stops_census_df, point_sum_df>>

-----------------------------------------------------------------------------

Next ==
    \/ StopsToCrs
    \/ StopsSjoin
    \/ StopsGroupby
    \/ StopsMerge
    \/ StopsArea
    \/ StopsIntensity
    \/ StopsExppts
    \/ StopsPtprob
    \/ StopsProbMap
    \/ ServiceSjoin
    \/ ServiceGroupby
    \/ ServiceMerge
    \/ ServiceArea
    \/ ServiceIntensity
    \/ ServiceExppts
    \/ ServicePtprob
    \/ ServiceProbMap
    \/ MainCallsNuanced
    \/ NuancedToCrs
    \/ NuancedSjoin
    \/ NuancedGroupby
    \/ NuancedGeometry

Spec == Init /\ [][Next]_vars

-----------------------------------------------------------------------------
(* Properties of the join and of the intensity model *)

Statements == <<"to_crs", "sjoin", "groupby", "merge", "area", "intensity",
                "exppts", "ptprob", "prob_map", "done">>

StatementNo(p) == CHOOSE n \in 1..Len(Statements) : Statements[n] = p

\* the script has executed statement p
Past(p) == script \in {"stops", "service"} /\ StatementNo(pc) > StatementNo(p)

Tracts == 1..Len(census_df)
Stops == 1..Len(bus_df)
Rows == 1..Len(prob_census_df)

\* the weight of a stop: 1 in the count of stops, its scheduled visits in the
\* count of service
Weight(s) == IF script = "stops" THEN 1 ELSE bus_df[s].stop_count

\* the stop lies in the closed tract, in the coordinates the join is given
StopInTract(s, t) == census_df[t].lo <= bus_df[s].x /\ bus_df[s].x <= census_df[t].hi

TractsOfStop(s) == {t \in Tracts : StopInTract(s, t)}

\* the total weight of the stops that lie in tract t
WeightInTract(t) ==
    SumSeq([s \in Stops |-> IF StopInTract(s, t) THEN Weight(s) ELSE 0])

Alpha == IF script = "stops" THEN AlphaStops ELSE AlphaService

\* observed > expected, observed < expected, observed = expected, p < alpha
ObservedAbove(row) == row.exppts.den > 0 /\ row.count * row.exppts.den > row.exppts.num
ObservedBelow(row) == row.exppts.den > 0 /\ row.count * row.exppts.den < row.exppts.num
ObservedAsExpected(row) ==
    row.exppts.den > 0 /\ row.count * row.exppts.den = row.exppts.num
Significant(row) == row.ptprob >= 0 /\ row.ptprob < Alpha

\* C1: every tract gets exactly one of the three classes: "More than expected"
\* exactly when observed > expected and p < alpha, "Less than expected" exactly
\* when observed < expected and p < alpha, "Non-significant" otherwise, so also
\* when observed = expected whatever p is (alpha 0.05 for stops, 0.01 for service)
ClassificationRule ==
    Past("prob_map") =>
        \A i \in Rows :
            LET row == prob_census_df[i]
                more == ObservedAbove(row) /\ Significant(row)
                less == ObservedBelow(row) /\ Significant(row)
            IN  /\ row.prob_map \in {"More than expected", "Less than expected",
                                     "Non-significant"}
                /\ row.prob_map = "More than expected" <=> more
                /\ row.prob_map = "Less than expected" <=> less
                /\ row.prob_map = "Non-significant" <=> (~more /\ ~less)
                /\ ObservedAsExpected(row) => row.prob_map = "Non-significant"

\* a tract whose count equals its expected count, with p below alpha, is
\* classified "Non-significant"
ClassificationRuleWitness ==
    /\ Past("prob_map")
    /\ \E i \in Rows :
          /\ ObservedAsExpected(prob_census_df[i])
          /\ Significant(prob_census_df[i])
          /\ prob_census_df[i].prob_map = "Non-significant"

\* C2: when the total area is positive, the expected counts add up to the
\* observed counts (all expected counts are fractions over the total area)
Conservation ==
    (Past("exppts") /\ SumSeq([t \in Tracts |-> GeometryArea(census_df[t])]) > 0) =>
        LET exppts == Column(prob_census_df, "exppts")
            den == exppts[1].den
        IN  /\ den > 0
            /\ \A i \in Rows : exppts[i].den = den
            /\ SumSeq([i \in Rows |-> exppts[i].num])
                  = SumSeq(Column(prob_census_df, "count")) * den

\* expected counts were computed for tracts of which one has stops and one
\* has none
ConservationWitness ==
    /\ Past("exppts")
    /\ \E i, j \in Rows :
          /\ prob_census_df[i].count > 0
          /\ prob_census_df[j].count = 0
          /\ prob_census_df[j].exppts.num > 0
          /\ prob_census_df[i].exppts.den > 0

\* C3: when a tract has area 0, no expected count, p-value or class is
\* computed for any tract
ZeroAreaIsRejected ==
    (script \in {"stops", "service"}
       /\ \E t \in Tracts : GeometryArea(census_df[t]) = 0)
    => ~Past("exppts")

\* C4: every tract of census_df is a row of the aggregate, once and in place; a
\* tract without a joined stop has count 0, and the intensity divides by the
\* area of all the tracts
EveryTractOnce ==
    /\ Past("merge") =>
          /\ Len(prob_census_df) = Len(census_df)
          /\ \A t \in Tracts :
                /\ prob_census_df[t].geoid10 = census_df[t].geoid10
                /\ (\A s \in Stops : ~StopInTract(s, t)) => prob_census_df[t].count = 0
    /\ Past("intensity") =>
          avg_intensity.den * 1000000
              = SumSeq([t \in Tracts |-> GeometryArea(census_df[t])])

\* the intensity was computed with a tract of positive area that has no stop
EveryTractOnceWitness ==
    /\ Past("intensity")
    /\ avg_intensity.num > 0
    /\ \E t \in Tracts :
          /\ \A s \in Stops : ~StopInTract(s, t)
          /\ GeometryArea(census_df[t]) > 0
          /\ prob_census_df[t].count = 0

\* C5: the count of a tract is the full weight of every stop that lies in it,
\* so the counts add up to the weight of every stop times the number of tracts
\* it lies in
FullWeightPerTract ==
    Past("merge") =>
        /\ \A t \in Tracts : prob_census_df[t].count = WeightInTract(t)
        /\ SumSeq(Column(prob_census_df, "count"))
              = SumSeq([s \in Stops |-> Weight(s) * Cardinality(TractsOfStop(s))])

\* a busy stop on the boundary of two tracts counts in full in both
FullWeightPerTractWitness ==
    /\ script = "service" /\ Past("merge")
    /\ \E s \in Stops : \E t, u \in TractsOfStop(s) :
          /\ t # u
          /\ Weight(s) > 1
          /\ prob_census_df[t].count >= Weight(s)
          /\ prob_census_df[u].count >= Weight(s)

\* the rows the join made of stop s
RowsOfStop(s) == SelectSeq(bus_census, LAMBDA row : row.stop = s)

\* C6: a stop in no tract adds to no count: the inner join has no row of it,
\* the left join one row without a tract, and the counts per tract after a
\* left join are those after an inner join
UnmatchedStopsCountNowhere ==
    Past("groupby") =>
        /\ \A s \in Stops : TractsOfStop(s) = {} =>
              IF script = "stops" THEN RowsOfStop(s) = <<>>
              ELSE Len(RowsOfStop(s)) = 1 /\ RowsOfStop(s)[1].geoid10 = NaN
        /\ point_sum = IF script = "stops"
                       THEN GroupbySize(Sjoin(bus_df, census_df, "left"))
                       ELSE GroupbySum(Sjoin(bus_df, census_df, "inner"))
        /\ SumSeq(Column(point_sum, "count"))
              = SumSeq([s \in Stops |-> Weight(s) * Cardinality(TractsOfStop(s))])

\* the left join kept a stop that lies in no tract, beside one that lies in a tract
UnmatchedStopsCountNowhereWitness ==
    /\ script = "service" /\ Past("groupby")
    /\ \E s, r \in Stops : TractsOfStop(s) = {} /\ TractsOfStop(r) # {}

\* C7: no join is made of stops and tracts in different coordinate reference
\* systems, and no count per tract is made of them
JoinNeedsSameCrs == Past("sjoin") => bus_crs = census_crs

-----------------------------------------------------------------------------
(* sklearn.cluster.DBSCAN *)

\* DBSCAN(eps=0.003, min_samples=10); coordinates and eps in thousandths of the unit of the frame
Eps == 3
MinSamples == 10

Noise == -1

\* the squared Euclidean distance of two coordinate pairs
SqDist(a, b) == (a[1] - b[1]) * (a[1] - b[1]) + (a[2] - b[2]) * (a[2] - b[2])

\* NearestNeighbors(radius=eps).radius_neighbors(X): for every point, the points
\* at distance <= eps, itself among them
RadiusNeighbors(X, eps) ==
    [i \in 1..Len(X) |-> {j \in 1..Len(X) : SqDist(X[i], X[j]) <= eps * eps}]

\* core_samples with "more than min_samples" in place of "at least"
CoreSamplesAbove(neighborhoods, min_samples) ==
    {i \in DOMAIN neighborhoods : Cardinality(neighborhoods[i]) > min_samples}

\* core_samples with "exactly min_samples" in place of "at least"
CoreSamplesExactly(neighborhoods, min_samples) ==
    {i \in DOMAIN neighborhoods : Cardinality(neighborhoods[i]) = min_samples}

\* core_samples: the points with at least min_samples neighbours
CoreSamples(neighborhoods, min_samples) ==
    {i \in DOMAIN neighborhoods : Cardinality(neighborhoods[i]) >= min_samples}

\* a search that goes on from every point it labels, core or not
RECURSIVE ReachedThroughAll(_, _, _, _)
ReachedThroughAll(S, neighborhoods, core, labels) ==
    LET pushed == {v \in UNION {neighborhoods[u] : u \in S} :
                      labels[v] = Noise} \ S
    IN  IF pushed = {} THEN S
        ELSE ReachedThroughAll(S \cup pushed, neighborhoods, core, labels)

\* the points one depth-first search of dbscan_inner labels from the points in
\* S: a point is pushed when it has no label yet and is a neighbour of a core
\* point that was popped
RECURSIVE Reached(_, _, _, _)
Reached(S, neighborhoods, core, labels) ==
    LET pushed == {v \in UNION {neighborhoods[u] : u \in S \cap core} :
                      labels[v] = Noise} \ S
    IN  IF pushed = {} THEN S
        ELSE Reached(S \cup pushed, neighborhoods, core, labels)

\* dbscan_inner(core, neighborhoods, labels), from point i on: a core point
\* without a label starts the next cluster
RECURSIVE DbscanInner(_, _, _, _, _)
DbscanInner(i, label_num, labels, neighborhoods, core) ==
    IF i > Len(labels) THEN labels
    ELSE IF labels[i] # Noise \/ i \notin core
         THEN DbscanInner(i + 1, label_num, labels, neighborhoods, core)
         ELSE LET cluster == Reached({i}, neighborhoods, core, labels)
              IN  DbscanInner(i + 1, label_num + 1,
                              [k \in 1..Len(labels) |->
                                  IF k \in cluster THEN label_num ELSE labels[k]],
                              neighborhoods, core)

\* DBSCAN(eps, min_samples).fit(X)
DbscanFit(X, eps, min_samples) ==
    LET neighborhoods == RadiusNeighbors(X, eps)
        core == CoreSamples(neighborhoods, min_samples)
    IN  [labels_ |-> DbscanInner(1, 0, [i \in 1..Len(X) |-> Noise], neighborhoods, core),
         core_sample_indices_ |-> core]

\* label_list.count(label) taken for "label in label_list"
CountOfPresence(label_list, label) == IF label \in Range(label_list) THEN 1 ELSE 0

\* label_list.count(label)
CountOf(label_list, label) == Cardinality({i \in 1..Len(label_list) : label_list[i] = label})

-----------------------------------------------------------------------------
(* density_clustering.dbscan *)

\* the step from one place of stops to the next: 0.003 east, which is eps away,
\* or 0.003 east and 0.001 north, which is farther
Steps == {<<3, 0>>, <<3, 1>>}

\* where the places lie: the first at the origin, each a step from the one before
RECURSIVE Places(_)
Places(step) ==
    IF step = <<>> THEN << <<0, 0>> >>
    ELSE LET before == Places(SubSeq(step, 1, Len(step) - 1))
             last == before[Len(before)]
         IN  Append(before, <<last[1] + step[Len(step)][1], last[2] + step[Len(step)][2]>>)

\* the rows of point_df: the stops of every place, place by place
RECURSIVE StopRows(_, _)
StopRows(place, crowd) ==
    IF place = <<>> THEN <<>>
    ELSE [n \in 1..Head(crowd) |-> [x |-> Head(place)[1], y |-> Head(place)[2]]]
         \o StopRows(Tail(place), Tail(crowd))

\* the bus stops given to dbscan: a crowd of stops at each of up to MaxSites places
PointTables ==
    { StopRows(Places(t[2]), t[3]) :
        t \in UNION { {m} \X [1..(m - 1) -> Steps] \X [1..m -> Crowds] :
                       m \in 1..MaxSites } }

\* density_clustering.py, at the call of dbscan
InitDbscan ==
    /\ script = "dbscan"
    /\ pc = "coords_array"
    /\ point_df \in PointTables
    /\ coords_array = <<>>
    /\ db_results = <<>>
    /\ db_labels = <<>>
    /\ n_clusters = 0
    /\ n_noise = 0
    /\ hdb_results = <<>>
    /\ hdb_labels = <<>>
    /\ n_clusters_ = 0
    /\ n_noise_ = 0
    /\ census_crs = "EPSG:4326"
    /\ bus_crs = "EPSG:4326"
    /\ census_df = <<>>
    /\ bus_df = <<>>
    /\ bus_census = <<>>
    /\ point_sum = <<>>
    /\ prob_census_df = <<>>
    /\ avg_intensity = <<>>
    /\ census_bus_crs_df = <<>>
    /\ stops_census_df = <<>>
    /\ point_sum_df = <<>>
    /\ point_sum_gdf = <<>>

\* coords_array = np.vstack([point_df.centroid.x, point_df.centroid.y]).T
DbscanCoords ==
    /\ script = "dbscan" /\ pc = "coords_array"
    /\ coords_array' = [i \in 1..Len(point_df) |-> <<point_df[i].x, point_df[i].y>>]
    /\ pc' = "fit"
    /\ UNCHANGED <<tablevars, hdbvars, script, point_df, db_results, db_labels, n_clusters, n_noise>>

\* db_results = DBSCAN(eps=0.003, min_samples=10).fit(coords_array)
DbscanFitted ==
    /\ script = "dbscan" /\ pc = "fit"
    /\ db_results' = DbscanFit(coords_array, Eps, MinSamples)
    /\ pc' = "db_labels"
    /\ UNCHANGED <<tablevars, hdbvars, script, point_df, coords_array, db_labels, n_clusters, n_noise>>

\* db_labels = [str(label) for label in db_results.labels_]
DbscanLabels ==
    /\ script = "dbscan" /\ pc = "db_labels"
    /\ db_labels' = [i \in 1..Len(db_results.labels_) |-> ToString(db_results.labels_[i])]
    /\ pc' = "n_clusters"
    /\ UNCHANGED <<tablevars, hdbvars, script, point_df, coords_array, db_results, n_clusters, n_noise>>

\* n_clusters = len(set(db_labels)) - (1 if "-1" in db_labels else 0)
DbscanCountClusters ==
    /\ script = "dbscan" /\ pc = "n_clusters"
    /\ n_clusters' = Cardinality(Range(db_labels))
                       - (IF "-1" \in Range(db_labels) THEN 1 ELSE 0)
    /\ pc' = "n_noise"
    /\ UNCHANGED <<tablevars, hdbvars, script, point_df, coords_array, db_results, db_labels, n_noise>>

\* n_noise = db_labels.count("-1")
DbscanCountNoise ==
    /\ script = "dbscan" /\ pc = "n_noise"
    /\ n_noise' = CountOf(db_labels, "-1")
    /\ pc' = "db_cluster"
    /\ UNCHANGED <<tablevars, hdbvars, script, point_df, coords_array, db_results, db_labels, n_clusters>>

\* point_df["db_cluster"] = db_labels
DbscanAssign ==
    /\ script = "dbscan" /\ pc = "db_cluster"
    /\ point_df' = SetColumn(point_df, "db_cluster", db_labels)
    /\ pc' = "done"
    /\ UNCHANGED <<tablevars, hdbvars, script, coords_array, db_results, db_labels, n_clusters, n_noise>>

NextCluster ==
    \/ DbscanCoords
    \/ DbscanFitted
    \/ DbscanLabels
    \/ DbscanCountClusters
    \/ DbscanCountNoise
    \/ DbscanAssign

SpecCluster == InitDbscan /\ [][NextCluster]_vars

-----------------------------------------------------------------------------
(* density_clustering.hdbscan, and the script that calls both *)

\* HDBSCAN(min_cluster_size=8)
MinClusterSize == 8

\* the label sequences HDBSCAN(min_cluster_size).fit(X) may give: the stops of
\* one place share a label, which is Noise or one of 0 .. k-1, each of them the
\* label of at least min_cluster_size points; k is never 1
\* (allow_single_cluster=False). Which of them it gives is left open.
HdbscanLabelings(X, min_cluster_size) ==
    LET places == Range(X)
        labelings == {[i \in 1..Len(X) |-> f[X[i]]] :
                        f \in [places -> {Noise} \cup (0..(Cardinality(places) - 1))]}
    IN  {l \in labelings :
            LET used == Range(l) \ {Noise}
            IN  /\ used = 0..(Cardinality(used) - 1)
                /\ Cardinality(used) # 1
                /\ \A c \in used : CountOf(l, c) >= min_cluster_size}

\* the bus stops of a run of the script: a crowd at each of up to MaxPlaces places
RunTables ==
    { StopRows(Places(t[2]), t[3]) :
        t \in UNION { {m} \X [1..(m - 1) -> Steps] \X [1..m -> Crowds] :
                       m \in 1..MaxPlaces } }

\* density_clustering.py __main__, at the call of dbscan
InitMain ==
    /\ script = "dbscan"
    /\ pc = "coords_array"
    /\ point_df \in RunTables
    /\ coords_array = <<>>
    /\ db_results = <<>>
    /\ db_labels = <<>>
    /\ n_clusters = 0
    /\ n_noise = 0
    /\ hdb_results = <<>>
    /\ hdb_labels = <<>>
    /\ n_clusters_ = 0
    /\ n_noise_ = 0
    /\ census_crs = "EPSG:4326"
    /\ bus_crs = "EPSG:4326"
    /\ census_df = <<>>
    /\ bus_df = <<>>
    /\ bus_census = <<>>
    /\ point_sum = <<>>
    /\ prob_census_df = <<>>
    /\ avg_intensity = <<>>
    /\ census_bus_crs_df = <<>>
    /\ stops_census_df = <<>>
    /\ point_sum_df = <<>>
    /\ point_sum_gdf = <<>>

\* dbscan(bus_df, census_df) has returned: hdbscan(bus_df, census_df), on the
\* same frame
MainCallsHdbscan ==
    /\ script = "dbscan" /\ pc = "done"
    /\ script' = "hdbscan"
    /\ pc' = "coords_array"
    /\ UNCHANGED <<tablevars, clustervars>>

\* coords_array = np.vstack([point_df.centroid.x, point_df.centroid.y]).T
HdbscanCoords ==
    /\ script = "hdbscan" /\ pc = "coords_array"
    /\ coords_array' = [i \in 1..Len(point_df) |-> <<point_df[i].x, point_df[i].y>>]
    /\ pc' = "fit"
    /\ UNCHANGED <<tablevars, hdbvars, script, point_df, db_results, db_labels,
                   n_clusters, n_noise>>

\* hdb_results = HDBSCAN(min_cluster_size=8).fit(coords_array)
HdbscanFitted ==
    /\ script = "hdbscan" /\ pc = "fit"
    /\ \E labels \in HdbscanLabelings(coords_array, MinClusterSize) :
           hdb_results' = [labels_ |-> labels]
    /\ pc' = "hdb_labels"
    /\ UNCHANGED <<tablevars, script, point_df, coords_array, db_results, db_labels,
                   n_clusters, n_noise, hdb_labels, n_clusters_, n_noise_>>

\* hdb_labels = [str(label) for label in hdb_results.labels_]
HdbscanLabels ==
    /\ script = "hdbscan" /\ pc = "hdb_labels"
    /\ hdb_labels' = [i \in 1..Len(hdb_results.labels_) |-> ToString(hdb_results.labels_[i])]
    /\ pc' = "n_clusters_"
    /\ UNCHANGED <<tablevars, script, point_df, coords_array, db_results, db_labels,
                   n_clusters, n_noise, hdb_results, n_clusters_, n_noise_>>

\* n_clusters_ = len(set(hdb_labels)) - (1 if "-1" in hdb_labels else 0)
HdbscanCountClusters ==
    /\ script = "hdbscan" /\ pc = "n_clusters_"
    /\ n_clusters_' = Cardinality(Range(hdb_labels))
                        - (IF "-1" \in Range(hdb_labels) THEN 1 ELSE 0)
    /\ pc' = "n_noise_"
    /\ UNCHANGED <<tablevars, script, point_df, coords_array, db_results, db_labels,
                   n_clusters, n_noise, hdb_results, hdb_labels, n_noise_>>

\* n_noise_ = hdb_labels.count("-1")
HdbscanCountNoise ==
    /\ script = "hdbscan" /\ pc = "n_noise_"
    /\ n_noise_' = CountOf(hdb_labels, "-1")
    /\ pc' = "hdb_cluster"
    /\ UNCHANGED <<tablevars, script, point_df, coords_array, db_results, db_labels,
                   n_clusters, n_noise, hdb_results, hdb_labels, n_clusters_>>

\* point_df["hdb_cluster"] = hdb_labels
HdbscanAssign ==
    /\ script = "hdbscan" /\ pc = "hdb_cluster"
    /\ point_df' = SetColumn(point_df, "hdb_cluster", hdb_labels)
    /\ pc' = "done"
    /\ UNCHANGED <<tablevars, hdbvars, script, coords_array, db_results, db_labels,
                   n_clusters, n_noise>>

NextMain ==
    \/ NextCluster
    \/ MainCallsHdbscan
    \/ HdbscanCoords
    \/ HdbscanFitted
    \/ HdbscanLabels
    \/ HdbscanCountClusters
    \/ HdbscanCountNoise
    \/ HdbscanAssign

SpecMain == InitMain /\ [][NextMain]_vars

-----------------------------------------------------------------------------
(* What the clustering promises *)

ClusterStatements == <<"coords_array", "fit", "db_labels", "n_clusters", "n_noise",
                       "db_cluster", "done">>

ClusterStatementNo(p) == CHOOSE n \in 1..Len(ClusterStatements) : ClusterStatements[n] = p

\* dbscan has executed statement p
Done(p) == script = "dbscan" /\ ClusterStatementNo(pc) > ClusterStatementNo(p)

\* dbscan has executed its last statement
Returned == Done("db_cluster")

Points == 1..Len(coords_array)

\* point j lies within Euclidean distance e of point i
Within(e, i, j) == SqDist(coords_array[i], coords_array[j]) <= e * e

\* the points with at least MinSamples points, themselves included, within e
DensePoints(e) ==
    {i \in Points : Cardinality({j \in Points : Within(e, i, j)}) >= MinSamples}

\* the dense points joined to those of S by a chain of dense points, each
\* within Eps of the next
RECURSIVE Chain(_, _)
Chain(S, dense) ==
    LET next == {j \in dense \ S : \E i \in S : Within(Eps, i, j)}
    IN  IF next = {} THEN S ELSE Chain(S \cup next, dense)

Label(i) == db_results.labels_[i]

\* C8: a point is a core point iff at least min_samples points, itself
\* included, lie within eps of it, and two core points have the same cluster
\* label iff a chain of core points, each within eps of the next, joins them:
\* when dbscan returns, the core points of every label are the chain of any
\* one of them.
CoreAndChain ==
    Returned =>
        \A dense \in {DensePoints(Eps)} :
            /\ db_results.core_sample_indices_ = dense
            /\ \A i \in dense : Label(i) # Noise
            /\ \A l \in {Label(i) : i \in dense} :
                   LET class == {i \in dense : Label(i) = l}
                   IN  class = Chain({CHOOSE i \in class : TRUE}, dense)

\* two core points too far apart to be neighbours share a label, two others
\* do not, and one core point has exactly MinSamples neighbours
CoreAndChainWitness ==
    /\ Returned
    /\ \E i, j \in db_results.core_sample_indices_ :
           /\ ~Within(Eps, i, j) /\ Label(i) = Label(j)
    /\ \E i, j \in db_results.core_sample_indices_ : Label(i) # Label(j)
    /\ \E i \in db_results.core_sample_indices_ :
           Cardinality({j \in Points : Within(Eps, i, j)}) = MinSamples

\* C9: every point has exactly one label; it is Noise iff the point is not a
\* core point and has no core point within eps; a point that is not a core
\* point and has one within eps carries the label of such a core point; the
\* frame dbscan returns has that label in db_cluster.
NoiseAndBorder ==
    /\ Done("fit") => DOMAIN db_results.labels_ = Points
    /\ Returned =>
           \A dense \in {DensePoints(Eps)} :
               /\ \A i \in Points :
                      /\ Label(i) \in Int /\ Label(i) >= Noise
                      /\ Label(i) = Noise <=>
                             (i \notin dense /\ \A j \in dense : ~Within(Eps, i, j))
                      /\ (i \notin dense /\ \E j \in dense : Within(Eps, i, j)) =>
                             \E j \in dense : Within(Eps, i, j) /\ Label(j) = Label(i)
    /\ Returned =>
           /\ Len(point_df) = Len(coords_array)
           /\ \A i \in Points : point_df[i].db_cluster = ToString(Label(i))

\* the frame has its labels: a point that is not a core point and is in a
\* cluster, and a point that is Noise within eps of a point in a cluster
NoiseAndBorderWitness ==
    /\ Returned
    /\ \E i \in Points : i \notin db_results.core_sample_indices_ /\ Label(i) # Noise
    /\ \E i, j \in Points : Label(i) = Noise /\ Label(j) # Noise /\ Within(Eps, i, j)

\* the number of points DBSCAN labels Noise at every radius 1 .. MaxEps
NoiseCounts ==
    [e \in 1..MaxEps |-> CountOf(DbscanFit(coords_array, e, MinSamples).labels_, Noise)]

\* C10: with min_samples fixed, a greater eps never labels more points Noise;
\* the count dbscan has reported when it returns is the one at its own eps.
NoiseShrinksWithEps ==
    /\ Returned =>
           \A noise \in {NoiseCounts} :
               /\ Eps \in 1..MaxEps => noise[Eps] = CountOf(db_results.labels_, Noise)
               /\ \A e1, e2 \in 1..MaxEps : e1 <= e2 => noise[e2] <= noise[e1]
    /\ Done("n_noise") => n_noise = CountOf(db_results.labels_, Noise)

\* the noise count has been reported and is less than at a smaller radius and
\* more than at a greater one
NoiseShrinksWithEpsWitness ==
    /\ Returned
    /\ \E e1, e2 \in 1..MaxEps :
           /\ e1 < Eps /\ Eps < e2
           /\ NoiseCounts[e1] > n_noise /\ n_noise > NoiseCounts[e2]

-----------------------------------------------------------------------------
(* What the summary of a clustering promises *)

HdbStatements == <<"coords_array", "fit", "hdb_labels", "n_clusters_", "n_noise_",
                   "hdb_cluster", "done">>

HdbStatementNo(p) == CHOOSE n \in 1..Len(HdbStatements) : HdbStatements[n] = p

\* hdbscan has executed statement p
HdbDone(p) == script = "hdbscan" /\ HdbStatementNo(pc) > HdbStatementNo(p)

\* dbscan has executed statement p, in this call or before hdbscan was called
DbscanDone(p) == Done(p) \/ script = "hdbscan"

\* the points that have label c
Members(labels, c) == {i \in 1..Len(labels) : labels[i] = c}

\* the labels other than Noise
ClusterIds(labels) == Range(labels) \ {Noise}

\* the sizes of the clusters ids, added up
RECURSIVE SizesOf(_, _)
SizesOf(labels, ids) ==
    IF ids = {} THEN 0
    ELSE LET c == CHOOSE c \in ids : TRUE
         IN  Cardinality(Members(labels, c)) + SizesOf(labels, ids \ {c})

\* the counts say of the labels what the summary is to say
Summarises(clusters, noise, labels) ==
    /\ clusters = Cardinality(ClusterIds(labels))
    /\ noise = Cardinality(Members(labels, Noise))
    /\ noise + SizesOf(labels, ClusterIds(labels)) = Len(point_df)

\* C11: for dbscan and for hdbscan, the cluster count reported is the number
\* of distinct labels other than Noise, the noise count is the number of
\* points labelled Noise, and the noise count and the sizes of the clusters
\* add up to the number of points.
CountsSummariseLabels ==
    /\ DbscanDone("n_noise") => Summarises(n_clusters, n_noise, db_results.labels_)
    /\ DbscanDone("n_clusters") =>
           n_clusters = Cardinality(ClusterIds(db_results.labels_))
    /\ HdbDone("n_noise_") => Summarises(n_clusters_, n_noise_, hdb_results.labels_)
    /\ HdbDone("n_clusters_") =>
           n_clusters_ = Cardinality(ClusterIds(hdb_results.labels_))

\* both have reported: dbscan two clusters and several Noise points, hdbscan
\* no cluster and every point Noise
CountsSummariseLabelsWitness ==
    /\ HdbDone("n_noise_")
    /\ n_clusters = 2 /\ n_noise > 1
    /\ n_clusters_ = 0 /\ n_noise_ = Len(point_df)

-----------------------------------------------------------------------------
(* What the operations promise of their inputs *)

\* C12: dbscan and hdbscan leave the point table passed in as it was: no
\* statement of theirs changes a field or a value of point_df, and the labels
\* are only in what they newly produce.
InputsLeftUnchanged == [][point_df' = point_df]_vars

-----------------------------------------------------------------------------
(* What the service totals promise of their geometry *)

\* C13: in the service totals of plot_nuanced_service_densities, the geometry
\* of every row is the polygon of the tract whose geoid10 the row has,
\* whatever the order of the tracts and whichever tracts have no stop.
GeometryIsOfNamedTract ==
    (script = "nuanced" /\ pc = "done") =>
        \A n \in 1..Len(point_sum_gdf) :
            \E j \in 1..Len(census_bus_crs_df) :
                /\ census_bus_crs_df[j].geoid10 = point_sum_gdf[n].geoid10
                /\ point_sum_gdf[n].geometry = [lo |-> census_bus_crs_df[j].lo,
                                                hi |-> census_bus_crs_df[j].hi]

====
